---------------------------- MODULE Spec2Model ----------------------------
(***************************************************************************)
(* Model of threeML/utils/interval.py: the Interval value type and the     *)
(* IntervalSet collection built on it.                                     *)
(*                                                                         *)
(* Numbers are integers: float(start) keeps the numeric value of a number, *)
(* so Interval.__init__ is modelled on the numeric values.  An operation's *)
(* outcome is a record [exc, val]: exc = "none" and the returned value, or *)
(* the name of the exception it raises.  Python's 0-based indices are kept *)
(* for values the program returns (containing_bin); positions inside the   *)
(* model's own sequences are 1-based.                                      *)
(*                                                                         *)
(* IntervalSet.sort() hands back np.atleast_1d(...), a numpy array of the  *)
(* intervals in argsort order.  len(), indexing and iteration work on it;  *)
(* a numpy array has no pop method, so the pop(0) calls of                 *)
(* merge_intersecting_intervals raise AttributeError.                      *)
(***************************************************************************)
EXTENDS Integers, Sequences, FiniteSets, TLC

VARIABLES x, y, self, other, op, arg, ret, oret

vars == <<x, y, self, other, op, arg, ret, oret>>

\* Largest start/stop value of the Interval type's inputs.
MaxVal == 3
\* Largest start/stop value of the intervals put in an IntervalSet.
MaxSetVal == 2
\* Largest number of intervals of the IntervalSet under test (Spec).
MaxLen == 3
\* Largest number of intervals of the first of two IntervalSets (SpecPair).
MaxPairLen == 3

Values == 0..MaxVal

None == "None"

Ok(v) == [exc |-> "none", val |-> v]

Raise(e) == [exc |-> e, val |-> None]

Max(a, b) == IF a >= b THEN a ELSE b

Min(a, b) == IF a <= b THEN a ELSE b

Abs(a) == IF a >= 0 THEN a ELSE -a

-----------------------------------------------------------------------------
(* Interval *)

IntervalRec(start, stop) == [start |-> start, stop |-> stop]

\* Interval.__init__ without the inverted-bounds test.
Interval_init_nocheck(start, stop, swap_if_inverted) ==
    Ok(IntervalRec(start, stop))

\* Interval.__init__: RuntimeError is the invalid-interval failure.
Interval_init(start, stop, swap_if_inverted) ==
    IF stop < start
    THEN IF swap_if_inverted
         THEN Ok(IntervalRec(stop, start))
         ELSE Raise("RuntimeError")
    ELSE Ok(IntervalRec(start, stop))

\* Every Interval object a caller can hold: the successful constructions.
Intervals ==
    { Interval_init(s, e, sw).val :
        <<s, e, sw>> \in { t \in Values \X Values \X BOOLEAN :
                             Interval_init(t[1], t[2], t[3]).exc = "none" } }

\* Interval.overlaps_with without its last case (the other encloses self).
overlaps_with_noenclose(a, interval) ==
    IF interval.start = a.start \/ interval.stop = a.stop THEN TRUE
    ELSE IF interval.start > a.start /\ interval.start < a.stop THEN TRUE
    ELSE IF interval.stop > a.start /\ interval.stop < a.stop THEN TRUE
    ELSE FALSE

\* Interval.overlaps_with(self = a, interval)
overlaps_with(a, interval) ==
    IF interval.start = a.start \/ interval.stop = a.stop THEN TRUE
    ELSE IF interval.start > a.start /\ interval.start < a.stop THEN TRUE
    ELSE IF interval.stop > a.start /\ interval.stop < a.stop THEN TRUE
    ELSE IF interval.start < a.start /\ interval.stop > a.stop THEN TRUE
    ELSE FALSE

\* Interval.intersect(self = a, interval)
intersect(a, interval) ==
    IF ~overlaps_with(a, interval)
    THEN Raise("IntervalsDoNotOverlap")
    ELSE Interval_init(Max(a.start, interval.start),
                       Min(a.stop, interval.stop), FALSE)

\* Interval.merge with the new stop taken from the receiver alone.
merge_keepstop(a, interval) ==
    IF overlaps_with(a, interval)
    THEN Interval_init(Min(a.start, interval.start), a.stop, FALSE)
    ELSE Raise("IntervalsDoNotOverlap")

\* Interval.merge(self = a, interval)
merge(a, interval) ==
    IF overlaps_with(a, interval)
    THEN Interval_init(Min(a.start, interval.start),
                       Max(a.stop, interval.stop), FALSE)
    ELSE Raise("IntervalsDoNotOverlap")

\* Interval.__eq__ between two Interval objects
Interval_eq(a, b) == a.start = b.start /\ a.stop = b.stop

-----------------------------------------------------------------------------
(* IntervalSet: the operators take the list self._intervals *)

\* All lists of at most n members of S.
SeqsUpTo(S, n) == UNION { [1..k -> S] : k \in 0..n }

\* The Interval objects put in the IntervalSets under test.
SetIntervals == { iv \in Intervals : iv.stop <= MaxSetVal }

\* The lists an IntervalSet under test is constructed from.
IntervalLists == SeqsUpTo(SetIntervals, MaxLen)

starts(ivs) == [i \in 1..Len(ivs) |-> ivs[i].start]

stops(ivs) == [i \in 1..Len(ivs) |-> ivs[i].stop]

\* One step of sorted(enumerate(tstarts), key=itemgetter(1)): index k goes
\* behind every index already placed whose start is not larger (stable).
InsertByStart(idx, k, tstarts) ==
    LET p == Cardinality({ i \in 1..Len(idx) : tstarts[idx[i]] <= tstarts[k] })
    IN  SubSeq(idx, 1, p) \o <<k>> \o SubSeq(idx, p + 1, Len(idx))

RECURSIVE SortedIdx(_, _)
SortedIdx(tstarts, k) ==
    IF k = 0 THEN <<>>
    ELSE InsertByStart(SortedIdx(tstarts, k - 1), k, tstarts)

\* IntervalSet.argsort: the indices that order the set by start.
argsort(ivs) == SortedIdx(starts(ivs), Len(ivs))

\* itemgetter(*self.argsort())(self._intervals) for two or more intervals.
TakeSorted(ivs) == [i \in 1..Len(ivs) |-> ivs[argsort(ivs)[i]]]

\* IntervalSet.sort: itemgetter() with no index raises TypeError (empty
\* set); np.atleast_1d wraps the lone interval of a one-element set.  The
\* value is the content of the numpy array.
sort(ivs) ==
    IF Len(ivs) = 0 THEN Raise("TypeError") ELSE Ok(TakeSorted(ivs))

\* sorted_intervals.pop(index) on the numpy array that sort() returned:
\* the array type has no such method.  A successful pop would hand back
\* [item, rest].
ndarray_pop(a, index) == Raise("AttributeError")

\* The loop of merge_intersecting_intervals (lines 290-312) and the
\* handling of the leftover interval (lines 322-341).
RECURSIVE Sweep(_, _)
Sweep(sorted_intervals, new_intervals) ==
    IF Len(sorted_intervals) > 1
    THEN LET p == ndarray_pop(sorted_intervals, 0)
         IN  IF p.exc # "none" THEN p
             ELSE LET this_interval == p.val.item
                      rest == p.val.rest
                  IN  IF overlaps_with(this_interval, rest[1])
                      THEN LET q == ndarray_pop(rest, 0)
                               m == merge(this_interval, q.val.item)
                           IN  IF q.exc # "none" THEN q
                               ELSE IF m.exc # "none" THEN m
                               ELSE Sweep(q.val.rest,
                                          Append(new_intervals, m.val))
                      ELSE Sweep(rest, Append(new_intervals, this_interval))
    ELSE IF sorted_intervals # <<>>
    THEN IF new_intervals # <<>>
         THEN LET n == Len(new_intervals)
              IN  IF overlaps_with(new_intervals[n], sorted_intervals[1])
                  THEN LET m == merge(new_intervals[n], sorted_intervals[1])
                       IN  IF m.exc # "none" THEN m
                           ELSE Ok([new_intervals EXCEPT ![n] = m.val])
                  ELSE Ok(Append(new_intervals, sorted_intervals[1]))
         ELSE Ok(Append(new_intervals, sorted_intervals[1]))
    ELSE Ok(new_intervals)

\* The list new_intervals that merge_intersecting_intervals builds.
merged_intervals(ivs) ==
    LET s == sort(ivs)
    IN  IF s.exc # "none" THEN s ELSE Sweep(s.val, <<>>)

\* IntervalSet.__eq__: zip stops at the shorter of the two sorted copies.
IntervalSet_eq(ivs, oth) ==
    LET a == sort(ivs)
        b == sort(oth)
    IN  IF a.exc # "none" THEN a
        ELSE IF b.exc # "none" THEN b
        ELSE Ok(\A i \in 1..Min(Len(a.val), Len(b.val)) :
                    Interval_eq(a.val[i], b.val[i]))

\* rtol = 1e-5 (relative_tolerance) and numpy's default atol = 1e-8, as
\* the integers 1/rtol and 1/atol.
RtolInv == 100000

AtolInv == 100000000

\* np.allclose on two numbers: |a - b| <= atol + rtol * |b|.
IsClose(a, b) == Abs(a - b) * AtolInv <= 1 + (AtolInv \div RtolInv) * Abs(b)

\* IntervalSet.is_contiguous made to compare the intervals in sort order.
is_contiguous_sorted(ivs) ==
    \A i \in 1..(Len(ivs) - 1) :
        IsClose(TakeSorted(ivs)[i + 1].start, TakeSorted(ivs)[i].stop)

\* IntervalSet.is_contiguous: starts[1:] against stops[:-1], in raw order.
is_contiguous(ivs) ==
    \A i \in 1..(Len(ivs) - 1) : IsClose(ivs[i + 1].start, ivs[i].stop)

\* IntervalSet.edges: iterating the result of itemgetter fails on an empty
\* set (no index) and on a one-element set (a lone Interval, not a tuple).
edges(ivs) ==
    IF is_contiguous(ivs)
    THEN IF Len(ivs) < 2 THEN Raise("TypeError")
         ELSE Ok(starts(TakeSorted(ivs))
                   \o <<stops(TakeSorted(ivs))[Len(ivs)]>>)
    ELSE Raise("IntervalsNotContiguous")

\* np.searchsorted(a, v), side left: binary search over the 0-based a.
RECURSIVE searchsorted_from(_, _, _, _)
searchsorted_from(a, v, lo, hi) ==
    IF lo < hi
    THEN LET mid == lo + ((hi - lo) \div 2)
         IN  IF a[mid + 1] < v
             THEN searchsorted_from(a, v, mid + 1, hi)
             ELSE searchsorted_from(a, v, lo, mid)
    ELSE lo

searchsorted(a, v) == searchsorted_from(a, v, 0, Len(a))

\* IntervalSet.containing_bin
containing_bin(ivs, value) ==
    LET e == edges(ivs)
    IN  IF e.exc # "none" THEN e
        ELSE Ok(Min(Max(0, searchsorted(e.val, value) - 1), Len(ivs)))

-----------------------------------------------------------------------------
(* State: x, y are two Interval objects; self and other are the            *)
(* _intervals lists of two IntervalSet objects; op, arg and ret are the    *)
(* last call made, its inputs and its outcome; oret is the outcome of the  *)
(* last call made on the set other.                                        *)

Unset == [exc |-> "unset", val |-> None]

\* x and y are any two constructed Intervals; no IntervalSet in use.
InitInterval ==
    /\ x \in Intervals /\ y \in Intervals
    /\ self = <<>> /\ other = <<>>
    /\ op = "init" /\ arg = None /\ ret = Unset /\ oret = Unset

\* x = Interval(start, stop, swap_if_inverted), or the same for y.
Construct(slot, start, stop, swap_if_inverted) ==
    LET r == Interval_init(start, stop, swap_if_inverted)
    IN  /\ op' = "Interval"
        /\ arg' = [start |-> start, stop |-> stop,
                   swap_if_inverted |-> swap_if_inverted]
        /\ ret' = r
        /\ x' = IF slot = "x" /\ r.exc = "none" THEN r.val ELSE x
        /\ y' = IF slot = "y" /\ r.exc = "none" THEN r.val ELSE y
        /\ UNCHANGED <<self, other, oret>>

\* x.overlaps_with(y)
OverlapsWith ==
    /\ op' = "overlaps_with" /\ arg' = <<x, y>>
    /\ ret' = Ok(overlaps_with(x, y))
    /\ UNCHANGED <<x, y, self, other, oret>>

\* x.intersect(y)
Intersect ==
    /\ op' = "intersect" /\ arg' = <<x, y>>
    /\ ret' = intersect(x, y)
    /\ UNCHANGED <<x, y, self, other, oret>>

\* x.merge(y)
Merge ==
    /\ op' = "merge" /\ arg' = <<x, y>>
    /\ ret' = merge(x, y)
    /\ UNCHANGED <<x, y, self, other, oret>>

NextInterval ==
    \/ \E slot \in {"x", "y"}, s \in Values, e \in Values, sw \in BOOLEAN :
          Construct(slot, s, e, sw)
    \/ OverlapsWith
    \/ Intersect
    \/ Merge

SpecInterval == InitInterval /\ [][NextInterval]_vars

-----------------------------------------------------------------------------
\* self = IntervalSet(list_of_intervals) for any list of Interval objects.
Init ==
    /\ x = IntervalRec(0, 0) /\ y = IntervalRec(0, 0)
    /\ self \in IntervalLists /\ other = <<>>
    /\ op = "IntervalSet" /\ arg = None /\ ret = Unset /\ oret = Unset

\* The values containing_bin is asked for: below, at, between and above
\* the values of the intervals.
QueryValues == (0 - 1)..(MaxSetVal + 1)

\* self.merge_intersecting_intervals(in_place): in place the receiver is
\* re-initialised with new_intervals and None is returned; otherwise a
\* new set holding new_intervals is returned.
MergeIntersecting(in_place) ==
    LET r == merged_intervals(self)
    IN  /\ op' = "merge_intersecting_intervals"
        /\ arg' = [recv |-> self, in_place |-> in_place]
        /\ ret' = IF r.exc = "none" /\ in_place THEN Ok(None) ELSE r
        /\ self' = IF r.exc = "none" /\ in_place THEN r.val ELSE self
        /\ UNCHANGED <<x, y, other, oret>>

\* self.is_contiguous()
IsContiguous ==
    /\ op' = "is_contiguous" /\ arg' = None
    /\ ret' = Ok(is_contiguous(self))
    /\ UNCHANGED <<x, y, self, other, oret>>

\* self.edges
Edges ==
    /\ op' = "edges" /\ arg' = None
    /\ ret' = edges(self)
    /\ UNCHANGED <<x, y, self, other, oret>>

\* self.containing_bin(value)
ContainingBin(value) ==
    /\ op' = "containing_bin" /\ arg' = value
    /\ ret' = containing_bin(self, value)
    /\ UNCHANGED <<x, y, self, other, oret>>

Next ==
    \/ \E in_place \in BOOLEAN : MergeIntersecting(in_place)
    \/ IsContiguous
    \/ Edges
    \/ \E value \in QueryValues : ContainingBin(value)

Spec == Init /\ [][Next]_vars

-----------------------------------------------------------------------------
(* Two sets: other holds the intervals of self in another order, or with   *)
(* one interval taken away, or with one more interval.                     *)

Reorderings(ivs) ==
    { [i \in 1..Len(ivs) |-> ivs[p[i]]] : p \in Permutations(1..Len(ivs)) }

Without(ivs, i) == SubSeq(ivs, 1, i - 1) \o SubSeq(ivs, i + 1, Len(ivs))

Related(ivs) ==
    Reorderings(ivs)
      \cup { Without(ivs, i) : i \in 1..Len(ivs) }
      \cup { Append(ivs, iv) : iv \in SetIntervals }

\* self = IntervalSet(S) and other = IntervalSet(P).
InitPair ==
    /\ x = IntervalRec(0, 0) /\ y = IntervalRec(0, 0)
    /\ self \in SeqsUpTo(SetIntervals, MaxPairLen)
    /\ other \in Related(self)
    /\ op = "IntervalSet" /\ arg = None /\ ret = Unset /\ oret = Unset

\* other.merge_intersecting_intervals()
MergeOther ==
    /\ oret' = merged_intervals(other)
    /\ UNCHANGED <<x, y, self, other, op, arg, ret>>

\* self == other
Eq ==
    /\ op' = "__eq__" /\ arg' = <<self, other>>
    /\ ret' = IntervalSet_eq(self, other)
    /\ UNCHANGED <<x, y, self, other, oret>>

NextPair ==
    \/ \E in_place \in BOOLEAN : MergeIntersecting(in_place)
    \/ MergeOther
    \/ Eq

SpecPair == InitPair /\ [][NextPair]_vars

-----------------------------------------------------------------------------
(* Sets built from a list of edges *)

\* One step of list.sort(): v goes behind every value not larger than it.
InsertValue(s, v) ==
    LET p == Cardinality({ i \in 1..Len(s) : s[i] <= v })
    IN  SubSeq(s, 1, p) \o <<v>> \o SubSeq(s, p + 1, Len(s))

\* edges.sort(): the first k values of the list in ascending order.
RECURSIVE list_sort(_, _)
list_sort(e, k) ==
    IF k = 0 THEN <<>> ELSE InsertValue(list_sort(e, k - 1), e[k])

\* IntervalSet.from_list_of_edges: sort the edges, then one interval per
\* pair of neighbours zip(edges[:-1], edges[1:]).
from_list_of_edges(e) ==
    LET s == list_sort(e, Len(e))
        made == [i \in 1..(Len(s) - 1) |-> Interval_init(s[i], s[i + 1], FALSE)]
    IN  IF \E i \in 1..Len(made) : made[i].exc # "none"
        THEN Raise("RuntimeError")
        ELSE Ok([i \in 1..Len(made) |-> made[i].val])

\* The lists of edges handed to from_list_of_edges.
EdgeLists == SeqsUpTo(0..MaxSetVal, MaxLen + 1)

\* No IntervalSet built yet.
InitEdges ==
    /\ x = IntervalRec(0, 0) /\ y = IntervalRec(0, 0)
    /\ self = <<>> /\ other = <<>>
    /\ op = "init" /\ arg = None /\ ret = Unset /\ oret = Unset

\* self = IntervalSet.from_list_of_edges(e)
FromListOfEdges(e) ==
    LET r == from_list_of_edges(e)
    IN  /\ op' = "from_list_of_edges" /\ arg' = e
        /\ ret' = r
        /\ self' = IF r.exc = "none" THEN r.val ELSE self
        /\ UNCHANGED <<x, y, other, oret>>

NextEdges ==
    \/ \E e \in EdgeLists : FromListOfEdges(e)
    \/ IsContiguous
    \/ Edges

SpecEdges == InitEdges /\ [][NextEdges]_vars

-----------------------------------------------------------------------------
(* Properties *)

IsMerge == op = "merge_intersecting_intervals"

\* The intervals a finished merge_intersecting_intervals call produced.
MergeResult == IF arg.in_place THEN self ELSE ret.val

\* b holds the same intervals as a, each as often, in any order.
IsReordering(a, b) ==
    /\ Len(a) = Len(b)
    /\ \A iv \in Intervals :
          Cardinality({ i \in 1..Len(a) : a[i] = iv })
            = Cardinality({ i \in 1..Len(b) : b[i] = iv })

Ascending(s) == \A i \in 1..(Len(s) - 1) : s[i] <= s[i + 1]

\* C1: merge_intersecting_intervals on a non-empty set gives a result, and
\* the result is mutually non-overlapping: no two distinct intervals of it
\* overlap.
C1_MergedNonOverlapping ==
    (IsMerge /\ Len(arg.recv) >= 1) =>
        /\ ret.exc = "none"
        /\ \A i, j \in 1..Len(MergeResult) :
              i # j => ~overlaps_with(MergeResult[i], MergeResult[j])

\* C2: when containing_bin returns for a set of n intervals, the value is
\* an index in 0..n-1: 0 below the first edge, n-1 above the last edge, and
\* i for a value strictly inside interval i.
C2_ContainingBinInRange ==
    (op = "containing_bin" /\ ret.exc = "none") =>
        LET n == Len(self)
        IN  /\ ret.val \in 0..(n - 1)
            /\ arg < self[1].start => ret.val = 0
            /\ arg > self[n].stop => ret.val = n - 1
            /\ \A i \in 1..n :
                  (self[i].start < arg /\ arg < self[i].stop)
                      => ret.val = i - 1

\* The set is contiguous taken in its sort order.
SortContiguous(ivs) ==
    \A i \in 1..(Len(ivs) - 1) :
        TakeSorted(ivs)[i].stop = TakeSorted(ivs)[i + 1].start

\* The set is contiguous taken in its insertion order.
RawContiguous(ivs) ==
    \A i \in 1..(Len(ivs) - 1) : ivs[i].stop = ivs[i + 1].start

C4_EqDetectsMismatch ==
    (op = "__eq__" /\ ret.exc = "none") =>
        LET a == TakeSorted(self)
            b == TakeSorted(other)
        IN  (\/ Len(a) # Len(b)
             \/ \E i \in 1..Min(Len(a), Len(b)) : ~Interval_eq(a[i], b[i]))
                => ret.val = FALSE

\* C5: == is order-independent: a non-empty set equals every reordering of
\* its intervals.
C5_EqOrderIndependent ==
    (op = "__eq__" /\ Len(self) >= 1 /\ IsReordering(self, other)) =>
        ret = Ok(TRUE)

\* C6: merge_intersecting_intervals gives the same sequence of intervals
\* for a non-empty set and for every reordering of its intervals.
C6_MergeOrderIndependent ==
    (IsMerge /\ ~arg.in_place /\ oret.exc # "unset"
       /\ Len(self) >= 1 /\ IsReordering(self, other)) =>
        (ret.exc = "none" /\ ret = oret)

\* C7: overlaps_with is symmetric.
C7_OverlapsSymmetric ==
    op = "overlaps_with" => ret = Ok(overlaps_with(arg[2], arg[1]))

\* A zero-width interval tested against one that strictly encloses it.
C7_Witness ==
    /\ op = "overlaps_with" /\ ret = Ok(TRUE)
    /\ x.start = x.stop
    /\ y.start < x.start /\ y.stop > x.stop

\* C8: intersect and merge fail with IntervalsDoNotOverlap exactly when
\* overlaps_with is false; otherwise intersect returns
\* [max(starts), min(stops)] and merge [min(starts), max(stops)]; neither
\* operand is changed.
C8_IntersectMergeContract ==
    op \in {"intersect", "merge"} =>
        /\ x = arg[1] /\ y = arg[2]
        /\ ret.exc = "IntervalsDoNotOverlap" <=> ~overlaps_with(x, y)
        /\ overlaps_with(x, y) =>
              ret = Ok(IF op = "intersect"
                       THEN IntervalRec(Max(x.start, y.start),
                                        Min(x.stop, y.stop))
                       ELSE IntervalRec(Min(x.start, y.start),
                                        Max(x.stop, y.stop)))

\* Two intervals of positive width that only touch were refused.
C8_Witness ==
    /\ op = "intersect" /\ x.stop = y.start
    /\ x.start < x.stop /\ y.start < y.stop
    /\ ret.exc = "IntervalsDoNotOverlap"

\* C9: every Interval that exists has start <= stop: inverted bounds are
\* refused (RuntimeError) or, with swap_if_inverted, swapped; and what
\* intersect and merge return has start <= stop, so they never fail with
\* the invalid-interval error.
C9_StartNotAfterStop ==
    /\ x.start <= x.stop /\ y.start <= y.stop
    /\ op = "Interval" =>
          /\ ret.exc = "none" => ret.val.start <= ret.val.stop
          /\ arg.stop < arg.start =>
                IF arg.swap_if_inverted
                THEN ret = Ok(IntervalRec(arg.stop, arg.start))
                ELSE ret.exc = "RuntimeError"
          /\ arg.start <= arg.stop =>
                ret = Ok(IntervalRec(arg.start, arg.stop))
    /\ op \in {"intersect", "merge"} =>
          /\ ret.exc # "RuntimeError"
          /\ ret.exc = "none" => ret.val.start <= ret.val.stop

\* Inverted bounds were swapped into a valid Interval.
C9_Witness ==
    /\ op = "Interval" /\ arg.stop < arg.start /\ arg.swap_if_inverted
    /\ ret.exc = "none" /\ x = ret.val /\ x.start < x.stop

\* C10: on a non-empty receiver, merge_intersecting_intervals with
\* in_place false returns a new set and leaves the receiver's list as it
\* was; with in_place true it returns nothing and the receiver's list
\* becomes the list the call with in_place false returns.
C10_InPlaceFrame ==
    (IsMerge /\ Len(arg.recv) >= 1) =>
        IF arg.in_place
        THEN ret = Ok(None) /\ Ok(self) = merged_intervals(arg.recv)
        ELSE ret.exc = "none" /\ self = arg.recv

\* b holds the same values as a, each as often.
SameValues(a, b) ==
    /\ Len(a) = Len(b)
    /\ \A v \in 0..MaxSetVal :
          Cardinality({ i \in 1..Len(a) : a[i] = v })
            = Cardinality({ i \in 1..Len(b) : b[i] = v })

\* C11: from_list_of_edges on a list E of two or more values yields
\* len(E)-1 intervals, ascending by start and contiguous, and the edges
\* accessor called on that set returns E sorted ascending, also when the
\* set holds a single interval.
C11_EdgesRoundTrip ==
    [][/\ (op' = "from_list_of_edges" /\ Len(arg') >= 2) =>
             /\ ret'.exc = "none" /\ self' = ret'.val
             /\ Len(self') = Len(arg') - 1
             /\ Ascending(starts(self'))
             /\ RawContiguous(self')
       /\ (op = "from_list_of_edges" /\ Len(arg) >= 2 /\ op' = "edges") =>
             /\ ret'.exc = "none"
             /\ Ascending(ret'.val)
             /\ SameValues(ret'.val, arg)]_vars

=============================================================================
